---- MODULE Spec2Model ----
(***************************************************************************)
(* Model of job-grazer's src/app/api/send/route.ts.                        *)
(*                                                                         *)
(*  - POST (lines 42-197): the request handler that greys out the rows of  *)
(*    a Google sheet whose identifier cell is in the supplied list.  The   *)
(*    handler is an async function; each action below is the code that     *)
(*    runs between two awaits, so requests interleave only at the remote   *)
(*    calls.                                                               *)
(*  - extractProjectIDs (lines 239-292): the CSV extractor, the `complete` *)
(*    and `error` callbacks handed to Papa.parse.                          *)
(*                                                                         *)
(* Strings that the code trims are tuples of one-character strings; the    *)
(* label "案件ID" is written <<"I","D">>.  An optional value (a JS value   *)
(* that may be undefined) is a tuple of length 0 or 1.                     *)
(***************************************************************************)
EXTENDS Integers, Sequences, FiniteSets, TLC

VARIABLES
    spreadsheet,  \* the remote spreadsheet: its sheets (title, sheetId, cells)
    grey,         \* the remote formatting: <<sheetId, row>> pairs whose background is GRAY_COLOR
    req,          \* per POST request: position in the handler and its locals
    csv,          \* the uploaded CSV, as lines of fields
    outcome       \* how the promise of extractProjectIDs settled (<<>>: pending)

vars == <<spreadsheet, grey, req, csv, outcome>>

\* Largest number of data rows (rows below the header) of a sheet or a CSV.
MaxRows == 2

Requests == {1, 2}

Label == <<"I", "D">>

Whitespace == {" ", "\t"}

----------------------------------------------------------------------------
\* String.prototype.trim

RECURSIVE TrimStart(_)
TrimStart(s) ==
    IF s # <<>> /\ Head(s) \in Whitespace THEN TrimStart(Tail(s)) ELSE s

RECURSIVE TrimEnd(_)
TrimEnd(s) ==
    IF s # <<>> /\ s[Len(s)] \in Whitespace
    THEN TrimEnd(SubSeq(s, 1, Len(s) - 1))
    ELSE s

Trim(s) == TrimEnd(TrimStart(s))

\* Array.prototype.includes on strings: exact equality with some element.
Includes(ids, v) == \E j \in 1..Len(ids) : ids[j] = v

----------------------------------------------------------------------------
\* The remote store (Google Sheets API v4) as the handler uses it.

\* spreadsheets.get with fields sheets.properties.title,sheets.properties.sheetId
SheetProperties(ss) ==
    [i \in 1..Len(ss) |-> [title |-> ss[i].title, sheetId |-> ss[i].sheetId]]

CellsOf(ss, title) ==
    LET i == CHOOSE j \in 1..Len(ss) : ss[j].title = title IN ss[i].cells

CellAt(cells, r, c) ==
    IF r <= Len(cells) /\ c + 1 <= Len(cells[r]) THEN cells[r][c + 1] ELSE <<>>

\* values.get leaves out trailing empty cells of a row and trailing empty rows.
RECURSIVE StripTrailing(_)
StripTrailing(s) ==
    IF s # <<>> /\ s[Len(s)] = <<>>
    THEN StripTrailing(SubSeq(s, 1, Len(s) - 1))
    ELSE s

ValuesResponse(rows) ==
    IF rows = <<>> THEN [hasValues |-> FALSE, values |-> <<>>]
    ELSE [hasValues |-> TRUE, values |-> rows]

\* values.get of "<title>!1:1"
GetRowOne(cells) ==
    LET row == IF Len(cells) = 0 THEN <<>> ELSE StripTrailing(cells[1])
    IN  ValuesResponse(IF row = <<>> THEN <<>> ELSE <<row>>)

\* values.get of "<title>!<col>:<col>", col the zero-based column c: one array
\* per row, empty for an empty cell.
GetColumn(cells, c) ==
    ValuesResponse(StripTrailing(
        [r \in 1..Len(cells) |->
            IF CellAt(cells, r, c) = <<>> THEN <<>> ELSE <<CellAt(cells, r, c)>>]))

\* A1 notation: a column address is one or more letters, read case-insensitively
\* as a bijective base-26 numeral (A = 1 .. Z = 26, AA = 27).  The result is the
\* zero-based column, or -1 when the address is no column address and the
\* store rejects the range.
LetterValue(code) ==
    IF code >= 65 /\ code <= 90 THEN code - 64
    ELSE IF code >= 97 /\ code <= 122 THEN code - 96
    ELSE 0

RECURSIVE A1Number(_)
A1Number(letters) ==
    IF letters = <<>> THEN 0
    ELSE 26 * A1Number(SubSeq(letters, 1, Len(letters) - 1))
         + LetterValue(letters[Len(letters)])

A1Column(letters) ==
    IF letters # <<>> /\ \A i \in 1..Len(letters) : LetterValue(letters[i]) > 0
    THEN A1Number(letters) - 1
    ELSE -1

----------------------------------------------------------------------------
\* POST: the pure steps

\* sheets?.find(s => s.properties?.title === sheetName), as an optional
Find(props, sheetName) ==
    LET hits == {i \in 1..Len(props) : props[i].title = sheetName}
    IN  IF hits = {} THEN <<>>
        ELSE <<props[CHOOSE i \in hits : \A j \in hits : i <= j]>>

SheetTitleOf(targetSheet) ==
    IF targetSheet = <<>> THEN <<>> ELSE <<targetSheet[1].title>>

SheetIdOf(targetSheet) ==
    IF targetSheet = <<>> THEN <<>> ELSE <<targetSheet[1].sheetId>>

\* if (!sheetTitle || sheetId === undefined), with sheetId === undefined
\* mistaken for !sheetId
SheetMissingFalsyId(sheetTitle, sheetId) ==
    sheetTitle = <<>> \/ sheetTitle = <<"">> \/ sheetId = <<>> \/ sheetId = <<0>>

\* if (!sheetTitle || sheetId === undefined)
SheetMissing(sheetTitle, sheetId) ==
    sheetTitle = <<>> \/ sheetTitle = <<"">> \/ sheetId = <<>>

\* headerResponse.data.values?.[0] || []
HeaderRowOf(response) ==
    IF response.hasValues THEN response.values[1] ELSE <<>>

\* headerRow.findIndex(cell => cell.trim() === "案件ID")
FindIndex(headerRow) ==
    LET hits == {i \in 1..Len(headerRow) : Trim(headerRow[i]) = Label}
    IN  IF hits = {} THEN -1
        ELSE (CHOOSE i \in hits : \A j \in hits : i <= j) - 1

\* String.fromCharCode("A".charCodeAt(0) + projectIDColumnIndex): one UTF-16
\* code unit
ColumnLetter(projectIDColumnIndex) == <<(65 + projectIDColumnIndex) % 65536>>

\* columnResponse.data.values || []
ColumnOf(response) == IF response.hasValues THEN response.values ELSE <<>>

\* The repeatCell request of one row, with the row taken for the zero-based
\* index.
RepeatCellOffByOne(sheetId, rowNumber) ==
    [range  |-> [sheetId |-> sheetId,
                 startRowIndex |-> rowNumber,
                 endRowIndex |-> rowNumber + 1],
     cell   |-> "GRAY_COLOR",
     fields |-> "userEnteredFormat.backgroundColor"]

\* The repeatCell request of one row: a GridRange with row bounds only.
RepeatCell(sheetId, rowNumber) ==
    [range  |-> [sheetId |-> sheetId,
                 startRowIndex |-> rowNumber - 1,
                 endRowIndex |-> rowNumber],
     cell   |-> "GRAY_COLOR",
     fields |-> "userEnteredFormat.backgroundColor"]

\* projectIDColumn[i]?.[0]?.trim(), as an optional
RowValue(projectIDColumn, i) ==
    IF i + 1 <= Len(projectIDColumn) /\ Len(projectIDColumn[i + 1]) > 0
    THEN <<Trim(projectIDColumn[i + 1][1])>>
    ELSE <<>>

\* rowValue && ...: undefined and "" are falsy
Truthy(rowValue) == rowValue # <<>> /\ rowValue[1] # <<>>

\* The matching loop with one push per identifier equal to the row's value.
RECURSIVE MatchPerIdFrom(_, _, _, _)
MatchPerIdFrom(i, projectIDColumn, extractedProjectIDs, sheetId) ==
    IF i >= Len(projectIDColumn) THEN <<>>
    ELSE LET rowValue == RowValue(projectIDColumn, i)
             n == IF Truthy(rowValue)
                  THEN Cardinality({j \in 1..Len(extractedProjectIDs) :
                                        extractedProjectIDs[j] = rowValue[1]})
                  ELSE 0
         IN  [j \in 1..n |-> RepeatCell(sheetId, i + 1)]
             \o MatchPerIdFrom(i + 1, projectIDColumn, extractedProjectIDs, sheetId)

MatchLoopPerId(projectIDColumn, extractedProjectIDs, sheetId) ==
    MatchPerIdFrom(1, projectIDColumn, extractedProjectIDs, sheetId)

\* for (let i = 1; i < projectIDColumn.length; i++) { ... updateRequests.push }
RECURSIVE MatchFrom(_, _, _, _)
MatchFrom(i, projectIDColumn, extractedProjectIDs, sheetId) ==
    IF i >= Len(projectIDColumn) THEN <<>>
    ELSE LET rowValue == RowValue(projectIDColumn, i)
             rowNumber == i + 1
         IN  (IF Truthy(rowValue) /\ Includes(extractedProjectIDs, rowValue[1])
              THEN <<RepeatCell(sheetId, rowNumber)>>
              ELSE <<>>)
             \o MatchFrom(i + 1, projectIDColumn, extractedProjectIDs, sheetId)

MatchLoop(projectIDColumn, extractedProjectIDs, sheetId) ==
    MatchFrom(1, projectIDColumn, extractedProjectIDs, sheetId)

\* One batchUpdate call per instruction.
BatchCallsPerRow(updateRequests) ==
    [i \in 1..Len(updateRequests) |-> <<updateRequests[i]>>]

\* The batchUpdate calls the handler issues: one with every instruction when
\* updateRequests.length > 0, none otherwise.
BatchCalls(updateRequests) ==
    IF Len(updateRequests) > 0 THEN <<updateRequests>> ELSE <<>>

\* repeatCell on the store: every row of the half-open range
\* [startRowIndex, endRowIndex) gets the background; nothing else changes.
ApplyBatch(g, requests) ==
    g \cup UNION {
        {<<requests[i].range.sheetId, row>> :
            row \in (requests[i].range.startRowIndex + 1)..requests[i].range.endRowIndex} :
        i \in 1..Len(requests)}

RECURSIVE ApplyCalls(_, _)
ApplyCalls(g, batches) ==
    IF batches = <<>> THEN g
    ELSE ApplyCalls(ApplyBatch(g, Head(batches)), Tail(batches))

\* The responses
SuccessResponse(n) ==
    [status |-> 200, success |-> TRUE, updated |-> n, error |-> ""]

SheetNotFoundResponse ==
    [status |-> 400, success |-> FALSE, updated |-> -1, error |-> "SheetNotFound"]

ColumnNotFoundResponse ==
    [status |-> 400, success |-> FALSE, updated |-> -1, error |-> "ColumnNotFound"]

\* The catch block answering as if nothing had happened.
CatchResponseSwallowed ==
    [status |-> 200, success |-> TRUE, updated |-> 0, error |-> ""]

\* catch (error) { ... status: 500 }
CatchResponse ==
    [status |-> 500, success |-> FALSE, updated |-> -1, error |-> "ApiError"]

----------------------------------------------------------------------------
\* POST: the handler, one action per stretch of code between two awaits.
\* pc is the stage the request is in; calls lists the remote calls it has
\* issued; responses the responses it has returned.  fault records that the
\* environment made an awaited call throw (network, quota, a body that is not
\* JSON); matched that the matching loop has run.

IdleRequest(sheetName, extractedProjectIDs) ==
    [pc |-> "Idle",
     sheetName |-> sheetName,
     extractedProjectIDs |-> extractedProjectIDs,
     sheetTitle |-> <<>>,
     sheetId |-> <<>>,
     headerRow |-> <<>>,
     projectIDColumnIndex |-> -1,
     projectIDColumnLetter |-> <<>>,
     projectIDColumn |-> <<>>,
     updateRequests |-> <<>>,
     matched |-> FALSE,
     calls |-> <<>>,
     responses |-> <<>>,
     fault |-> FALSE]

\* An awaited call throws: control goes to the catch block.
Thrown(q, byEnvironment) ==
    [q EXCEPT !.pc = "Failed",
              !.responses = Append(@, CatchResponse),
              !.fault = @ \/ byEnvironment]

\* await request.json(), then spreadsheets.get is issued
Start(r) ==
    /\ req[r].pc = "Idle"
    /\ \E ok \in BOOLEAN :
        req' = [req EXCEPT ![r] =
                    IF ok
                    THEN [@ EXCEPT !.pc = "ResolvingSheet",
                                   !.calls = Append(@, "spreadsheets.get")]
                    ELSE Thrown(@, TRUE)]
    /\ UNCHANGED <<spreadsheet, grey, csv, outcome>>

\* spreadsheets.get returns; the sheet is looked up; the header read is issued
ResolveSheet(r) ==
    /\ req[r].pc = "ResolvingSheet"
    /\ \E ok \in BOOLEAN :
        LET targetSheet == Find(SheetProperties(spreadsheet), req[r].sheetName)
            sheetTitle == SheetTitleOf(targetSheet)
            sheetId == SheetIdOf(targetSheet)
        IN  req' = [req EXCEPT ![r] =
                IF ~ok THEN Thrown(@, TRUE)
                ELSE IF SheetMissing(sheetTitle, sheetId)
                THEN [@ EXCEPT !.pc = "Failed",
                               !.sheetTitle = sheetTitle,
                               !.sheetId = sheetId,
                               !.responses = Append(@, SheetNotFoundResponse)]
                ELSE [@ EXCEPT !.pc = "ResolvingColumn",
                               !.sheetTitle = sheetTitle,
                               !.sheetId = sheetId,
                               !.calls = Append(@, "values.get header")]]
    /\ UNCHANGED <<spreadsheet, grey, csv, outcome>>

\* the header read returns; the column is looked up; the column read is issued
ResolveColumn(r) ==
    /\ req[r].pc = "ResolvingColumn"
    /\ \E ok \in BOOLEAN :
        LET headerRow ==
                HeaderRowOf(GetRowOne(CellsOf(spreadsheet, req[r].sheetTitle[1])))
            projectIDColumnIndex == FindIndex(headerRow)
        IN  req' = [req EXCEPT ![r] =
                IF ~ok THEN Thrown(@, TRUE)
                ELSE IF projectIDColumnIndex = -1
                THEN [@ EXCEPT !.pc = "Failed",
                               !.headerRow = headerRow,
                               !.projectIDColumnIndex = projectIDColumnIndex,
                               !.responses = Append(@, ColumnNotFoundResponse)]
                ELSE [@ EXCEPT !.pc = "ReadingColumn",
                               !.headerRow = headerRow,
                               !.projectIDColumnIndex = projectIDColumnIndex,
                               !.projectIDColumnLetter =
                                    ColumnLetter(projectIDColumnIndex),
                               !.calls = Append(@, "values.get column")]]
    /\ UNCHANGED <<spreadsheet, grey, csv, outcome>>

\* the column read returns, or the store rejects the range it was given
ReadColumn(r) ==
    /\ req[r].pc = "ReadingColumn"
    /\ \E ok \in BOOLEAN :
        LET c == A1Column(req[r].projectIDColumnLetter)
        IN  req' = [req EXCEPT ![r] =
                IF ~ok THEN Thrown(@, TRUE)
                ELSE IF c = -1 THEN Thrown(@, FALSE)
                ELSE [@ EXCEPT !.pc = "Matching",
                               !.projectIDColumn = ColumnOf(GetColumn(
                                    CellsOf(spreadsheet, req[r].sheetTitle[1]), c))]]
    /\ UNCHANGED <<spreadsheet, grey, csv, outcome>>

\* the matching loop
Match(r) ==
    /\ req[r].pc = "Matching"
    /\ req' = [req EXCEPT ![r] =
                [@ EXCEPT !.pc = "Submitting",
                          !.matched = TRUE,
                          !.updateRequests =
                               MatchLoop(req[r].projectIDColumn,
                                         req[r].extractedProjectIDs,
                                         req[r].sheetId[1])]]
    /\ UNCHANGED <<spreadsheet, grey, csv, outcome>>

\* step 5: batchUpdate when there is something to update, then the response.
\* The store applies a batch whole or not at all.
Submit(r) ==
    /\ req[r].pc = "Submitting"
    /\ LET batches == BatchCalls(req[r].updateRequests)
           n == Len(req[r].updateRequests)
       IN  \/ /\ batches = <<>>
              /\ req' = [req EXCEPT ![r] =
                            [@ EXCEPT !.pc = "Done",
                                      !.responses = Append(@, SuccessResponse(n))]]
              /\ UNCHANGED grey
           \/ /\ batches # <<>>
              /\ grey' = ApplyCalls(grey, batches)
              /\ req' = [req EXCEPT ![r] =
                            [@ EXCEPT !.pc = "Done",
                                      !.calls = @ \o [i \in 1..Len(batches) |->
                                                        "batchUpdate"],
                                      !.responses = Append(@, SuccessResponse(n))]]
           \/ /\ batches # <<>>
              /\ req' = [req EXCEPT ![r] =
                            Thrown([@ EXCEPT !.calls = Append(@, "batchUpdate")],
                                   TRUE)]
              /\ UNCHANGED grey
    /\ UNCHANGED <<spreadsheet, csv, outcome>>

Step(r) ==
    \/ Start(r)
    \/ ResolveSheet(r)
    \/ ResolveColumn(r)
    \/ ReadColumn(r)
    \/ Match(r)
    \/ Submit(r)

----------------------------------------------------------------------------
\* The sheets and inputs the requests are run on.

A == <<"A">>
B == <<"B">>

\* Cell texts: empty, an identifier, the same with whitespace around it,
\* another identifier, whitespace only.
Cells == {<<>>, A, <<" ", "A", "\t">>, B, <<" ">>}

\* Identifier lists: empty, duplicates, the header text, a different case, an
\* untrimmed identifier.
IdLists ==
    {<<>>, <<A>>, <<A, A>>, <<A, B>>, <<Label, B>>, <<<<"a">>>>,
     <<<<" ", "A", "\t">>>>}

ColumnsOfCells == UNION {[1..n -> Cells] : n \in 0..MaxRows}

\* Zero-based positions of the identifier column: first, second, 27th (AA),
\* 33rd (AG).
LabelPositions == {0, 1, 26, 32}

HeaderTexts == {Label, <<" ", "I", "D", " ">>}

\* A sheet with the header text at column labelAt, the values idValues below
\* it and otherValues in column A (when the identifier column is not A).
MakeCells(labelAt, headerText, idValues, otherValues) ==
    LET height == 1 + (IF Len(idValues) > Len(otherValues)
                       THEN Len(idValues) ELSE Len(otherValues))
        at(s, i) == IF i <= Len(s) THEN s[i] ELSE <<>>
    IN  [row \in 1..height |->
            [col \in 1..(labelAt + 1) |->
                IF col = labelAt + 1
                THEN (IF row = 1 THEN headerText ELSE at(idValues, row - 1))
                ELSE IF col = 1
                THEN (IF row = 1 THEN <<"N">> ELSE at(otherValues, row - 1))
                ELSE <<>>]]

\* Sheets without the label in row 1: no cells at all, another header.
UnlabelledCells == {<<>>, <<<<<<"N">>>>, <<A>>>>}

LabelledCells ==
    {MakeCells(labelAt, headerText, idValues, otherValues) :
        labelAt \in LabelPositions, headerText \in HeaderTexts,
        idValues \in ColumnsOfCells, otherValues \in {<<>>, <<A>>}}

SecondSheetCells == <<<<Label>>, <<B>>, <<A>>>>

MakeSpreadsheet(cells) ==
    <<[title |-> "S1", sheetId |-> 0, cells |-> cells],
      [title |-> "S2", sheetId |-> 7, cells |-> SecondSheetCells]>>

SheetNames == {"S1", "S2", "Nope"}

\* No CSV is being extracted while the requests run, and no request while a
\* CSV is extracted.
NoCsv == <<>>

\* One request.
Init ==
    /\ \E cells \in LabelledCells \cup UnlabelledCells :
            spreadsheet = MakeSpreadsheet(cells)
    /\ grey = {}
    /\ \E name \in SheetNames, ids \in IdLists :
            req = [r \in Requests |-> IdleRequest(name, ids)]
    /\ csv = NoCsv
    /\ outcome = <<>>

Next == Step(1)

Spec == Init /\ [][Next]_vars

----------------------------------------------------------------------------
\* extractProjectIDs.  csv is the file as Papa Parse tokenises it: a sequence
\* of lines, each a sequence of fields.

\* skipEmptyLines: true drops the lines that are one empty field.
RECURSIVE SkipEmptyLines(_)
SkipEmptyLines(lines) ==
    IF lines = <<>> THEN <<>>
    ELSE (IF Head(lines) = <<<<>>>> THEN <<>> ELSE <<Head(lines)>>)
         \o SkipEmptyLines(Tail(lines))

ParsedExtra == <<"__parsed_extra">>

\* header: true turns a line into an object with one key per field that is
\* present, in field order, and the surplus fields under __parsed_extra; a line
\* shorter than the header has no key for the fields it lacks.
RowObject(fields, line) ==
    LET n == IF Len(line) < Len(fields) THEN Len(line) ELSE Len(fields)
    IN  [keys   |-> [j \in 1..n |-> fields[j]]
                    \o (IF Len(line) > Len(fields) THEN <<ParsedExtra>> ELSE <<>>),
         values |-> [j \in 1..n |-> line[j]]
                    \o (IF Len(line) > Len(fields)
                        THEN <<SubSeq(line, Len(fields) + 1, Len(line))>>
                        ELSE <<>>)]

\* results.data
PapaData(file) ==
    LET lines == SkipEmptyLines(file)
    IN  IF lines = <<>> THEN <<>>
        ELSE [i \in 1..(Len(lines) - 1) |-> RowObject(lines[1], lines[i + 1])]

\* !data || data.length === 0, with the header line counted in
IsEmptyDataOffByOne(data) == Len(data) <= 1

\* !data || data.length === 0
IsEmptyData(data) == Len(data) = 0

\* Object.keys(data[0]).find(key => key.trim() === "案件ID"), as an optional
FindProjectIDKey(headerKeys) ==
    LET hits == {i \in 1..Len(headerKeys) : Trim(headerKeys[i]) = Label}
    IN  IF hits = {} THEN <<>>
        ELSE <<headerKeys[CHOOSE i \in hits : \A j \in hits : i <= j]>>

\* row[projectIDKey] ? String(row[projectIDKey]).trim() : ""
ProjectIDOf(row, projectIDKey) ==
    LET hits == {i \in 1..Len(row.keys) : row.keys[i] = projectIDKey}
    IN  IF hits = {} THEN <<>>
        ELSE Trim(row.values[CHOOSE i \in hits : \A j \in hits : i <= j])

\* .filter(id => id)
RECURSIVE FilterNonEmpty(_)
FilterNonEmpty(s) ==
    IF s = <<>> THEN <<>>
    ELSE (IF Head(s) = <<>> THEN <<>> ELSE <<Head(s)>>) \o FilterNonEmpty(Tail(s))

Resolved(ids) == [settled |-> "resolved", ids |-> ids, error |-> ""]

Rejected(error) == [settled |-> "rejected", ids |-> <<>>, error |-> error]

\* The complete callback.
ExtractProjectIDs(file) ==
    LET data == PapaData(file)
    IN  IF IsEmptyData(data) THEN Rejected("Empty")
        ELSE LET projectIDKey == FindProjectIDKey(data[1].keys)
             IN  IF projectIDKey = <<>> THEN Rejected("HeaderNotFound")
                 ELSE Resolved(FilterNonEmpty(
                        [i \in 1..Len(data) |-> ProjectIDOf(data[i], projectIDKey[1])]))

\* Papa Parse calls complete with the parsed lines.
Complete ==
    /\ outcome = <<>>
    /\ outcome' = <<ExtractProjectIDs(csv)>>
    /\ UNCHANGED <<spreadsheet, grey, req, csv>>

\* Papa Parse calls error: the file could not be read.
ParseError ==
    /\ outcome = <<>>
    /\ outcome' = <<Rejected("ParseFailed")>>
    /\ UNCHANGED <<spreadsheet, grey, req, csv>>

\* Two requests on the same spreadsheet, interleaved at their remote calls.
ConcurrentColumns == UNION {[1..n -> {<<>>, A, B}] : n \in 0..MaxRows}

InitConcurrent ==
    /\ \E idValues \in ConcurrentColumns :
            spreadsheet = MakeSpreadsheet(MakeCells(0, Label, idValues, <<>>))
    /\ grey = {}
    /\ \E names \in [Requests -> {"S1", "S2"}],
          ids \in [Requests -> {<<A>>, <<B>>, <<A, B>>}] :
            req = [r \in Requests |-> IdleRequest(names[r], ids[r])]
    /\ csv = NoCsv
    /\ outcome = <<>>

NextConcurrent == \E r \in Requests : Step(r)

SpecConcurrent == InitConcurrent /\ [][NextConcurrent]_vars

----------------------------------------------------------------------------
\* What the claims speak of.

SheetExists(name) == \E i \in 1..Len(spreadsheet) : spreadsheet[i].title = name

\* The identifier column of a sheet: the first column whose row-1 cell, trimmed,
\* is the label (-1: none).
IdentifierColumn(cells) ==
    LET width == IF Len(cells) = 0 THEN 0 ELSE Len(cells[1])
        hits == {c \in 0..(width - 1) : Trim(CellAt(cells, 1, c)) = Label}
    IN  IF hits = {} THEN -1 ELSE CHOOSE c \in hits : \A d \in hits : c <= d

\* The rows r >= 2 of column c whose trimmed cell is non-empty and in ids.
ExpectedRows(cells, c, ids) ==
    {row \in 2..Len(cells) :
        /\ Trim(CellAt(cells, row, c)) # <<>>
        /\ Includes(ids, Trim(CellAt(cells, row, c)))}

\* The same, of the column as the request read it (index 0 is row 1).
MatchedRows(projectIDColumn, ids) ==
    {row \in 2..Len(projectIDColumn) :
        /\ Len(projectIDColumn[row]) > 0
        /\ Trim(projectIDColumn[row][1]) # <<>>
        /\ Includes(ids, Trim(projectIDColumn[row][1]))}

\* The one-based rows a batch targets.
TargetedRows(updateRequests) ==
    UNION {(updateRequests[i].range.startRowIndex + 1)
                ..updateRequests[i].range.endRowIndex :
           i \in 1..Len(updateRequests)}

BatchUpdates(r) == {i \in 1..Len(req[r].calls) : req[r].calls[i] = "batchUpdate"}

Finished(r) == req[r].pc \in {"Done", "Failed"}

\* C1: a request on an existing sheet with an identifier column, whose remote
\* calls the environment did not fail, gets to build its batch; and the batch
\* targets exactly the rows r >= 2 of the sheet's identifier column whose
\* trimmed cell is non-empty and in the identifier list; never row 1, never a
\* blank or missing cell.
C1_TargetsExactlyMatchingRows ==
    \A r \in Requests :
        /\ req[r].matched =>
            LET cells == CellsOf(spreadsheet, req[r].sheetName)
            IN  TargetedRows(req[r].updateRequests)
                    = ExpectedRows(cells, IdentifierColumn(cells),
                                   req[r].extractedProjectIDs)
        /\ (/\ Finished(r)
            /\ ~req[r].fault
            /\ SheetExists(req[r].sheetName)
            /\ IdentifierColumn(CellsOf(spreadsheet, req[r].sheetName)) # -1)
           => req[r].matched

\* C2: a request issues batchUpdate at most once, as its fourth and last remote
\* call after the matching loop; a request that answered before matching
\* issued none; and the greyed rows are exactly those of the batches of the
\* requests that are done, so no batch is applied in part.
C2_BatchOnceAfterMatching ==
    /\ \A r \in Requests :
        /\ Cardinality(BatchUpdates(r)) <= 1
        /\ BatchUpdates(r) # {} =>
                /\ req[r].matched
                /\ req[r].calls = <<"spreadsheets.get", "values.get header",
                                    "values.get column", "batchUpdate">>
        /\ (req[r].responses # <<>> /\ ~req[r].matched) => BatchUpdates(r) = {}
    /\ grey = UNION {{<<req[r].sheetId[1], row>> :
                        row \in TargetedRows(req[r].updateRequests)} :
                     r \in {q \in Requests : req[q].pc = "Done"}}

C2_Witness ==
    \E r \in Requests :
        /\ req[r].pc = "Done"
        /\ BatchUpdates(r) # {}
        /\ Len(req[r].updateRequests) = 2

\* C3: a request on an existing sheet with an identifier column none of whose
\* rows matches, and whose remote calls the environment did not fail, issues
\* no batchUpdate and answers success, status 200, 0 rows updated.
C3_ZeroMatchesIsSuccess ==
    \A r \in Requests :
        (/\ Finished(r)
         /\ ~req[r].fault
         /\ SheetExists(req[r].sheetName)
         /\ LET cells == CellsOf(spreadsheet, req[r].sheetName)
            IN  /\ IdentifierColumn(cells) # -1
                /\ ExpectedRows(cells, IdentifierColumn(cells),
                                req[r].extractedProjectIDs) = {})
        => /\ req[r].responses = <<SuccessResponse(0)>>
           /\ BatchUpdates(r) = {}

\* C4: when no sheet has the title sheetName, the only remote call is the
\* metadata read and, once it has returned, the answer is sheet-not-found; when
\* a sheet has that title (sheetId 0 included) the answer is never
\* sheet-not-found.
C4_SheetNotFound ==
    \A r \in Requests :
        /\ ~SheetExists(req[r].sheetName) =>
            /\ \A i \in 1..Len(req[r].calls) : req[r].calls[i] = "spreadsheets.get"
            /\ Len(req[r].calls) <= 1
            /\ (~req[r].fault /\ req[r].pc \notin {"Idle", "ResolvingSheet"}) =>
                    /\ req[r].pc = "Failed"
                    /\ req[r].responses = <<SheetNotFoundResponse>>
        /\ SheetExists(req[r].sheetName) =>
            \A i \in 1..Len(req[r].responses) :
                req[r].responses[i] # SheetNotFoundResponse

C4_Witness ==
    \E r \in Requests :
        /\ ~SheetExists(req[r].sheetName)
        /\ req[r].responses = <<SheetNotFoundResponse>>

\* The bijective base-26 column address of zero-based column k, as character
\* codes (0 -> A, 25 -> Z, 26 -> AA, 27 -> AB).
RECURSIVE ColumnAddress(_)
ColumnAddress(k) ==
    IF k < 26 THEN <<65 + k>>
    ELSE ColumnAddress((k \div 26) - 1) \o <<65 + (k % 26)>>

\* C5: the column address the request reads with is the bijective base-26
\* address of the header index it found, and the store reads that column.
C5_ColumnAddressIsBijective ==
    \A r \in Requests :
        req[r].projectIDColumnLetter # <<>> =>
            /\ req[r].projectIDColumnLetter
                    = ColumnAddress(req[r].projectIDColumnIndex)
            /\ A1Column(req[r].projectIDColumnLetter)
                    = req[r].projectIDColumnIndex

\* C8: a request steps through Idle, ResolvingSheet, ResolvingColumn,
\* ReadingColumn, Matching, Submitting, Done one stage at a time, or from a
\* stage before Done to Failed; it issues no remote call twice and none once
\* it is Done or Failed; it has answered exactly once when it is Done
\* (success, 200) or Failed (an error, 400 or 500) and not at all before.
Stages ==
    <<"Idle", "ResolvingSheet", "ResolvingColumn", "ReadingColumn", "Matching",
      "Submitting", "Done">>

StageInvariant(r) ==
    /\ \A i, j \in 1..Len(req[r].calls) :
            req[r].calls[i] = req[r].calls[j] => i = j
    /\ Len(req[r].responses) = (IF Finished(r) THEN 1 ELSE 0)
    /\ req[r].pc = "Done" =>
            /\ req[r].responses[1].success
            /\ req[r].responses[1].status = 200
    /\ req[r].pc = "Failed" =>
            /\ ~req[r].responses[1].success
            /\ req[r].responses[1].status \in {400, 500}

StageStep(r) ==
    /\ \/ req'[r].pc = req[r].pc
       \/ req'[r].pc = "Failed" /\ ~Finished(r)
       \/ \E i \in 1..(Len(Stages) - 1) :
            req[r].pc = Stages[i] /\ req'[r].pc = Stages[i + 1]
    /\ Finished(r) => req'[r] = req[r]
    /\ Len(req'[r].calls) >= Len(req[r].calls)
    /\ SubSeq(req'[r].calls, 1, Len(req[r].calls)) = req[r].calls

C8_StageMachine ==
    /\ [](\A r \in Requests : StageInvariant(r))
    /\ [][\A r \in Requests : StageStep(r)]_vars

C8_Witness ==
    \E r \in Requests :
        /\ req[r].pc = "Failed"
        /\ req[r].matched
        /\ req[r].responses = <<CatchResponse>>

\* C10: once the matching loop has run, the batch holds one instruction per
\* matched row of the column read, each the range [row - 1, row) of the
\* resolved sheet with row bounds only, no two on the same row; and the number
\* in the success response is the number of instructions.
C10_OneInstructionPerMatchedRow ==
    \A r \in Requests :
        req[r].matched =>
            LET u == req[r].updateRequests
                rows == MatchedRows(req[r].projectIDColumn,
                                    req[r].extractedProjectIDs)
            IN  /\ Len(u) = Cardinality(rows)
                /\ \A i \in 1..Len(u) :
                    /\ DOMAIN u[i].range
                            = {"sheetId", "startRowIndex", "endRowIndex"}
                    /\ \E k \in 1..Len(spreadsheet) :
                            /\ spreadsheet[k].title = req[r].sheetName
                            /\ spreadsheet[k].sheetId = u[i].range.sheetId
                    /\ u[i].range.endRowIndex \in rows
                    /\ u[i].range.startRowIndex = u[i].range.endRowIndex - 1
                /\ \A i, j \in 1..Len(u) :
                    u[i].range.startRowIndex = u[j].range.startRowIndex => i = j
                /\ req[r].pc = "Done" =>
                    req[r].responses[1].updated = Len(u)

C10_Witness ==
    \E r \in Requests :
        /\ req[r].pc = "Done"
        /\ req[r].extractedProjectIDs = <<A, A>>
        /\ Len(req[r].updateRequests) = 2

\* C9: when two concurrent requests have both finished, the greyed rows are
\* the union of the rows matched by those that are done, whatever the order
\* in which their steps and batches were taken.
C9_GreyIsUnionOfMatches ==
    (\A r \in Requests : Finished(r)) =>
        grey = UNION {{<<req[r].sheetId[1], row>> :
                            row \in MatchedRows(req[r].projectIDColumn,
                                                req[r].extractedProjectIDs)} :
                      r \in {q \in Requests : req[q].pc = "Done"}}

C9_Witness ==
    /\ \A r \in Requests : req[r].pc = "Done"
    /\ req[1].sheetId = req[2].sheetId
    /\ MatchedRows(req[1].projectIDColumn, req[1].extractedProjectIDs) = {2}
    /\ MatchedRows(req[2].projectIDColumn, req[2].extractedProjectIDs) = {2, 3}

----------------------------------------------------------------------------
\* The CSVs extractProjectIDs is run on.

N == <<"N">>

CsvHeaders ==
    {<<Label>>, <<N, Label>>, <<N, <<" ", "I", "D">>>>, <<N>>, <<N, <<"M">>>>,
     <<<<"i", "d">>>>}

CsvCells == {<<>>, A, <<" ", "A", "\t">>, B}

\* Lines of one field (the blank line among them), of two, and one of three.
CsvLines == UNION {[1..n -> CsvCells] : n \in 1..2} \cup {<<A, B, A>>}

CsvFiles ==
    {<<>>} \cup
    {<<header>> \o rows :
        header \in CsvHeaders,
        rows \in UNION {[1..n -> CsvLines] : n \in 0..MaxRows}}

InitCsv ==
    /\ spreadsheet = MakeSpreadsheet(<<>>)
    /\ grey = {}
    /\ req = [r \in Requests |-> IdleRequest("S1", <<>>)]
    /\ csv \in CsvFiles
    /\ outcome = <<>>

NextCsv == Complete \/ ParseError

SpecCsv == InitCsv /\ [][NextCsv]_vars

\* The header line and the data lines as the parser sees them.
HeaderLine == LET lines == SkipEmptyLines(csv) IN
    IF lines = <<>> THEN <<>> ELSE lines[1]

DataLines == LET lines == SkipEmptyLines(csv) IN
    IF lines = <<>> THEN <<>> ELSE Tail(lines)

HeaderHasLabel == \E j \in 1..Len(HeaderLine) : Trim(HeaderLine[j]) = Label

\* The target column: the first header field that is the label once trimmed.
TargetField ==
    CHOOSE j \in 1..Len(HeaderLine) :
        /\ Trim(HeaderLine[j]) = Label
        /\ \A k \in 1..(j - 1) : Trim(HeaderLine[k]) # Label

NonEmpty(s) == s # <<>>

\* The target column's cell of each data line, trimmed, the empty ones dropped.
ExpectedIDs ==
    SelectSeq([i \in 1..Len(DataLines) |->
                  IF TargetField <= Len(DataLines[i])
                  THEN Trim(DataLines[i][TargetField])
                  ELSE <<>>],
              NonEmpty)

Completed == outcome # <<>> /\ outcome # <<Rejected("ParseFailed")>>

\* C6 as stated: a parsed CSV with a header line that lacks the label is
\* rejected with header-not-found, however many data lines it has.
C6_HeaderNotFoundAnyRows ==
    (Completed /\ HeaderLine # <<>> /\ ~HeaderHasLabel)
        => outcome = <<Rejected("HeaderNotFound")>>

\* C6 amended: a parsed CSV with a header line that lacks the label and at
\* least one data line is rejected with header-not-found.
C6_HeaderNotFoundWithData ==
    (Completed /\ HeaderLine # <<>> /\ ~HeaderHasLabel /\ Len(DataLines) >= 1)
        => outcome = <<Rejected("HeaderNotFound")>>

C6_Witness ==
    /\ HeaderLine # <<>>
    /\ ~HeaderHasLabel
    /\ Len(DataLines) = 1
    /\ outcome = <<Rejected("HeaderNotFound")>>

\* C7: a parsed CSV with the label in its header line and at least one data
\* line resolves to the target column's cells in line order, trimmed, the
\* empty ones dropped; a line shorter than the header contributes nothing.
C7_ReturnsTargetColumn ==
    (Completed /\ HeaderHasLabel /\ Len(DataLines) >= 1)
        => outcome = <<Resolved(ExpectedIDs)>>

====
